---- MODULE Spec2Model ----
(***************************************************************************)
(* Model of monitor_web.py: the monitor() poll loop with its per-host      *)
(* debounce bookkeeping (status_data, down_since, alert_sent), the sqlite  *)
(* ping_log table with its queries, the webhook notifier and the daily     *)
(* digest job; and the dashboard request index() reading status_data from  *)
(* its own thread (SpecReader).                                            *)
(*                                                                         *)
(* Time is an integer clock.  time.time() and datetime.utcnow() both read  *)
(* it; the clock advances in time.sleep(CHECK_INTERVAL).                   *)
(***************************************************************************)
EXTENDS Integers, Sequences, FiniteSets, TLC

\* ---------------------------------------------------------------- bounds
Horizon == 3         \* poll cycles explored
MaxGrace == 2        \* GRACE_PERIOD ranges over 0..MaxGrace
StartTime == 8       \* clock value when monitor() enters its loop
MaxWindow == 3       \* largest uptime window queried
DigestDelay == 1     \* time from loop entry to the first daily digest
MaxLimit == 3        \* largest limit asked of the history query
ReaderCycles == 1    \* poll cycles explored while a dashboard request runs

\* ------------------------------------------------------ program constants
CHECK_INTERVAL == 1
DayLength == 24

VARIABLES
    GRACE_PERIOD,   \* int(os.getenv("GRACE_PERIOD", 300)), fixed per run
    WEBHOOK_URL,    \* TRUE iff os.getenv("WEBHOOK_URL") is set
    status_data,    \* ip -> dict(hostname, is_up, last_change[, latency])
    down_since,     \* dict ip -> time; a key is present only while failing
    alert_sent,     \* ip -> bool
    ping_log,       \* rows of table ping_log, in id order
    clock,          \* wall clock
    now,            \* monitor(): now = time.time() of the current cycle
    idx,            \* monitor(): position of the for loop in targets
    pc,             \* monitor(): "top" | "poll" | "pending" | "sleep" | "dead"
    next_run,       \* schedule: next due time of the daily_summary job
    sent,           \* history: calls of send_webhook, with their outcome
    episode,        \* history: per ip, the current run of failed probes
    last,           \* history: what the most recent loop iteration did
    reader,         \* index(): position of one request, its row so far, its rows
    snapshots       \* history: per ip, the values status_data[ip] has had

vars == <<GRACE_PERIOD, WEBHOOK_URL, status_data, down_since, alert_sent,
          ping_log, clock, now, idx, pc, next_run, sent, episode, last,
          reader, snapshots>>

\* ---------------------------------------------------------------- targets
\* monitor() lines 114-119: the (hostname, ip) pairs read from ips.txt
targets == <<[hostname |-> "web1", ip |-> 1], [hostname |-> "web2", ip |-> 2]>>

Ips == {targets[i].ip : i \in DOMAIN targets}

\* ------------------------------------------------------------ time as text
\* datetime.isoformat(): fixed-width text, most significant digit first
isoformat(t) == <<t \div 10, t % 10>>

\* strftime("%Y-%m-%d %H:%M:%S")
strftime(t) == ToString(t)

\* SQL text comparison a >= b of two timestamps (lexicographic)
RECURSIVE TextGE(_, _)
TextGE(a, b) ==
    IF b = <<>> THEN TRUE
    ELSE IF a = <<>> THEN FALSE
    ELSE IF Head(a) # Head(b) THEN Head(a) > Head(b)
    ELSE TextGE(Tail(a), Tail(b))

\* dict.update(**kw)
DictUpdate(d, kw) ==
    [k \in DOMAIN d \cup DOMAIN kw |-> IF k \in DOMAIN kw THEN kw[k] ELSE d[k]]

\* dict.pop(key, None)
DictPop(d, key) == [k \in DOMAIN d \ {key} |-> d[k]]

\* ------------------------------------------------------------- the prober
\* what subprocess.run(["ping", ...], timeout=5) does in the runs explored:
\* exit code 0 with a "time=" line, a non-zero exit code, or TimeoutExpired.
\* (ping_host also covers "reply_notime", exit code 0 without a "time=" line.)
RawPings == {"reply_time", "no_reply", "timeout"}

\* latency parsed from a "time=" line of the ping output
ParsedLatency == 5

\* lines 76-91 without the try/except
ping_host_uncaught(raw) ==
    IF raw = "timeout" THEN [raised |-> TRUE, is_up |-> FALSE, latency |-> 0]
    ELSE IF raw = "reply_time" THEN [raised |-> FALSE, is_up |-> TRUE, latency |-> ParsedLatency]
    ELSE IF raw = "reply_notime" THEN [raised |-> FALSE, is_up |-> TRUE, latency |-> 0]
    ELSE [raised |-> FALSE, is_up |-> FALSE, latency |-> 0]

\* ping_host(ip): (is_up, latency or 0); any exception gives (False, 0)
ping_host(raw) ==
    IF raw = "timeout" THEN [raised |-> FALSE, is_up |-> FALSE, latency |-> 0]
    ELSE IF raw = "reply_time" THEN [raised |-> FALSE, is_up |-> TRUE, latency |-> ParsedLatency]
    ELSE IF raw = "reply_notime" THEN [raised |-> FALSE, is_up |-> TRUE, latency |-> 0]
    ELSE [raised |-> FALSE, is_up |-> FALSE, latency |-> 0]

\* ----------------------------------------------------------- the notifier
\* what requests.post can do
Transports == {"ok", "error"}

\* line 100 without the try/except
send_webhook_uncaught(url, transport) ==
    IF ~url THEN [raised |-> FALSE, result |-> "skipped"]
    ELSE IF transport = "error" THEN [raised |-> TRUE, result |-> "error"]
    ELSE [raised |-> FALSE, result |-> "posted"]

\* send_webhook(message): no URL -> warning and return; exception -> logged
send_webhook(url, transport) ==
    IF ~url THEN [raised |-> FALSE, result |-> "skipped"]
    ELSE IF transport = "error" THEN [raised |-> FALSE, result |-> "error"]
    ELSE [raised |-> FALSE, result |-> "posted"]

Message(kind, ip, hosts, result) ==
    [kind |-> kind, ip |-> ip, hosts |-> hosts, result |-> result]

\* ------------------------------------------------------- the ping_log table
\* what sqlite can do on the INSERT
DbOutcomes == {"ok", "error"}

\* log_ping inserting a row only for a reachable host
log_ping_up_only(log, ip, hostname, is_up, latency, t, db) ==
    IF db = "error" THEN [raised |-> TRUE, log |-> log]
    ELSE IF ~is_up THEN [raised |-> FALSE, log |-> log]
    ELSE [raised |-> FALSE,
          log |-> Append(log, [ip |-> ip, hostname |-> hostname, is_up |-> 1,
                               latency |-> latency, timestamp |-> isoformat(t)])]

\* log_ping(ip, hostname, is_up, latency): INSERT one row; a sqlite error
\* is not caught
log_ping(log, ip, hostname, is_up, latency, t, db) ==
    IF db = "error" THEN [raised |-> TRUE, log |-> log]
    ELSE [raised |-> FALSE,
          log |-> Append(log, [ip |-> ip, hostname |-> hostname,
                               is_up |-> IF is_up THEN 1 ELSE 0,
                               latency |-> latency,
                               timestamp |-> isoformat(t)])]

\* SQL text comparison a > b
TextGT(a, b) == TextGE(a, b) /\ a # b

\* SELECT COUNT(*), SUM(is_up) FROM ping_log WHERE ip=? AND timestamp>=?
\* (SUM over no row is NULL, modelled as 0: it is not used when COUNT is 0)
RECURSIVE SelectCountSum(_, _, _)
SelectCountSum(log, ip, since) ==
    IF log = <<>> THEN [total |-> 0, up |-> 0]
    ELSE LET rest == SelectCountSum(Tail(log), ip, since)
             row == Head(log)
         IN  IF row.ip = ip /\ TextGE(row.timestamp, since)
             THEN [total |-> rest.total + 1, up |-> rest.up + row.is_up]
             ELSE rest

\* round((up / total) * 100, 2), in hundredths of a percent; a tie goes to
\* the even neighbour
Round2(up, total) ==
    LET q == (10000 * up) \div total
        r == (10000 * up) % total
    IN  IF 2 * r > total THEN q + 1
        ELSE IF 2 * r < total THEN q
        ELSE IF q % 2 = 0 THEN q ELSE q + 1

\* lines 67-68 selecting timestamp > ?
calc_uptime_strict(log, ip, minutes, t) ==
    LET since == isoformat(t - minutes)
        hit == {i \in DOMAIN log : log[i].ip = ip /\ TextGT(log[i].timestamp, since)}
        up == {i \in hit : log[i].is_up = 1}
    IN  IF hit = {} THEN 10000 ELSE Round2(Cardinality(up), Cardinality(hit))

\* calc_uptime(ip, minutes) at time t, in hundredths of a percent
calc_uptime(log, ip, minutes, t) ==
    LET since == t - minutes
        c == SelectCountSum(log, ip, isoformat(since))
    IN  IF c.total = 0 THEN 10000
        ELSE Round2(c.up, c.total)

\* SELECT timestamp, latency, is_up FROM ping_log WHERE ip=?
\* ORDER BY id DESC LIMIT ?  (limit >= 0): newest row first
RECURSIVE SelectRecentDesc(_, _, _)
SelectRecentDesc(log, ip, limit) ==
    IF log = <<>> \/ limit = 0 THEN <<>>
    ELSE LET row == log[Len(log)]
             older == SubSeq(log, 1, Len(log) - 1)
         IN  IF row.ip = ip
             THEN <<row>> \o SelectRecentDesc(older, ip, limit - 1)
             ELSE SelectRecentDesc(older, ip, limit)

\* list.reverse()
Reverse(rows) == [k \in 1..Len(rows) |-> rows[Len(rows) + 1 - k]]

\* line 61: one dict per row, is_up through bool()
HistoryEntry(row) ==
    [timestamp |-> row.timestamp, latency |-> row.latency, is_up |-> row.is_up # 0]

\* lines 58-61 without rows.reverse()
get_recent_history_unreversed(log, ip, limit) ==
    LET rows == SelectRecentDesc(log, ip, limit)
    IN  [k \in 1..Len(rows) |-> HistoryEntry(rows[k])]

\* get_recent_history(ip, limit)
get_recent_history(log, ip, limit) ==
    LET rows == Reverse(SelectRecentDesc(log, ip, limit))
    IN  [k \in 1..Len(rows) |-> HistoryEntry(rows[k])]

\* -------------------------------------------------- the debounce conditions
\* line 138 testing prev for truth
RecoveryCond_PrevUp(prev, flag) == prev /\ flag

\* line 138 without the alert_sent test
RecoveryCond_NoFlag(prev, flag) == prev = FALSE

\* monitor() line 138: prev is False and alert_sent[ip]
RecoveryCond(prev, flag) == prev = FALSE /\ flag

\* line 143 without the test of line 142
MarkDown_Overwrite(since, ip, t) == DictUpdate(since, ip :> t)

\* monitor() lines 142-143: if ip not in down_since: down_since[ip] = now
MarkDown(since, ip, t) ==
    IF ip \in DOMAIN since THEN since ELSE DictUpdate(since, ip :> t)

\* line 144 without the grace test
AlertCond_NoGrace(prev, t, since, flag) == prev /\ ~flag

\* line 144 with only the grace test
AlertCond_GraceOnly(prev, t, since, flag) == t - since >= GRACE_PERIOD

\* line 144 comparing with > instead of >=
AlertCond_Strict(prev, t, since, flag) ==
    prev /\ (t - since > GRACE_PERIOD) /\ ~flag

\* monitor() line 144: prev and (now - down_since[ip] >= GRACE_PERIOD)
\*                     and not alert_sent[ip]
AlertCond(prev, t, since, flag) ==
    prev /\ (t - since >= GRACE_PERIOD) /\ ~flag

\* ------------------------------------------------------------------- Init
NoPoll == [ip |-> 0, at |-> 0, is_up |-> FALSE, probe_exc |-> FALSE, log_error |-> FALSE,
           notify |-> "none", result |-> "none"]

\* index(): no request is being served
NoRequest == [pc |-> "idle", pos |-> 1, uptime |-> 0, is_up |-> TRUE, latency |-> 0,
              rows |-> <<>>]

\* line 122 starting a host as down
InitialStatus_Down(h) == [hostname |-> h, is_up |-> FALSE, last_change |-> "Never"]

\* monitor() line 122: the status entry of a host not probed yet
InitialStatus(h) == [hostname |-> h, is_up |-> TRUE, last_change |-> "Never"]

\* the state when monitor() enters its loop at time t
InitAt(t) ==
    /\ GRACE_PERIOD \in 0..MaxGrace
    /\ WEBHOOK_URL \in BOOLEAN
    /\ status_data = [ip \in Ips |-> InitialStatus(targets[ip].hostname)]
    /\ down_since = [ip \in {} |-> 0]
    /\ alert_sent = [ip \in Ips |-> FALSE]
    /\ ping_log = <<>>
    /\ clock = t
    /\ now = t
    /\ idx = 1
    /\ pc = "top"
    /\ next_run = t + DigestDelay
    /\ sent = <<>>
    /\ episode = [ip \in Ips |-> [failing |-> FALSE, since |-> 0, alerts |-> 0]]
    /\ last = NoPoll
    /\ reader = NoRequest
    /\ snapshots = [ip \in Ips |-> {status_data[ip]}]

Init == InitAt(StartTime)

\* --------------------------------------------------------- the poll loop
\* monitor() line 128: now = time.time(), then the for loop starts
BeginCycle ==
    /\ pc = "top"
    /\ clock < StartTime + Horizon * CHECK_INTERVAL
    /\ now' = clock
    /\ idx' = 1
    /\ pc' = "poll"
    /\ UNCHANGED <<GRACE_PERIOD, WEBHOOK_URL, status_data, down_since, alert_sent,
                   ping_log, clock, next_run, sent, episode, last, reader, snapshots>>

\* monitor() lines 130-148 for targets[idx], given what the probe, the
\* database and the webhook transport do.  The result names the new value of
\* every dict the iteration touches and whether an exception left the loop.
Iteration(raw, db, transport) ==
    LET h == targets[idx].hostname
        ip == targets[idx].ip
        p == ping_host(raw)
        prev == status_data[ip]["is_up"]
        w == log_ping(ping_log, ip, h, p.is_up, p.latency, clock, db)
        s == send_webhook(WEBHOOK_URL, transport)
        stamp == strftime(clock)
        same == [status |-> status_data, since |-> down_since, flags |-> alert_sent,
                 log |-> ping_log, out |-> sent, notify |-> "none", result |-> "none",
                 dead |-> TRUE]
    IN  IF p.raised THEN same
        ELSE IF w.raised THEN same
        ELSE IF p.is_up THEN
            \* lines 136-140, 148
            LET st1 == [status_data EXCEPT ![ip] =
                          DictUpdate(@, [is_up |-> TRUE, latency |-> p.latency,
                                         last_change |-> stamp])]
                ds1 == DictPop(down_since, ip)
            IN  IF RecoveryCond(prev, alert_sent[ip]) THEN
                    [status |-> st1, since |-> ds1,
                     flags |-> IF s.raised THEN alert_sent
                               ELSE [alert_sent EXCEPT ![ip] = FALSE],
                     log |-> w.log,
                     out |-> Append(sent, Message("RECOVERY", ip, <<>>, s.result)),
                     notify |-> "RECOVERY", result |-> s.result, dead |-> s.raised]
                ELSE
                    [status |-> st1, since |-> ds1, flags |-> alert_sent,
                     log |-> w.log, out |-> sent,
                     notify |-> "none", result |-> "none", dead |-> FALSE]
        ELSE
            \* lines 142-148
            LET ds1 == MarkDown(down_since, ip, now)
                st2 == [status_data EXCEPT ![ip] =
                          DictUpdate(@, [is_up |-> FALSE, latency |-> 0,
                                         last_change |-> stamp])]
                st3 == [status_data EXCEPT ![ip] = DictUpdate(@, [is_up |-> FALSE])]
            IN  IF AlertCond(prev, now, ds1[ip], alert_sent[ip]) THEN
                    [status |-> IF s.raised THEN status_data ELSE st2,
                     since |-> ds1,
                     flags |-> IF s.raised THEN alert_sent
                               ELSE [alert_sent EXCEPT ![ip] = TRUE],
                     log |-> w.log,
                     out |-> Append(sent, Message("ALERT", ip, <<>>, s.result)),
                     notify |-> "ALERT", result |-> s.result, dead |-> s.raised]
                ELSE
                    [status |-> st3, since |-> ds1, flags |-> alert_sent,
                     log |-> w.log, out |-> sent,
                     notify |-> "none", result |-> "none", dead |-> FALSE]

\* history: the run of consecutive failed probes of ip, from the probe
\* results alone
EpisodeAfter(e, is_up, t, alerted) ==
    IF is_up THEN [failing |-> FALSE, since |-> 0, alerts |-> 0]
    ELSE IF e.failing THEN [e EXCEPT !.alerts = @ + (IF alerted THEN 1 ELSE 0)]
    ELSE [failing |-> TRUE, since |-> t, alerts |-> IF alerted THEN 1 ELSE 0]

\* monitor() lines 129-148: one iteration of the for loop
PollHost ==
    /\ pc = "poll"
    /\ \E raw \in RawPings, db \in DbOutcomes, transport \in Transports :
        LET ip == targets[idx].ip
            p == ping_host(raw)
            r == Iteration(raw, db, transport)
        IN  /\ status_data' = r.status
            /\ down_since' = r.since
            /\ alert_sent' = r.flags
            /\ ping_log' = r.log
            /\ sent' = r.out
            /\ episode' = [episode EXCEPT ![ip] =
                              EpisodeAfter(@, ~(raw \in {"no_reply", "timeout"}), now,
                                           r.notify = "ALERT")]
            /\ last' = [ip |-> ip, at |-> now, is_up |-> ~(raw \in {"no_reply", "timeout"}),
                        probe_exc |-> raw = "timeout",
                        log_error |-> ~p.raised /\ db = "error",
                        notify |-> r.notify, result |-> r.result]
            /\ pc' = IF r.dead THEN "dead"
                     ELSE IF idx = Len(targets) THEN "pending" ELSE "poll"
            /\ idx' = IF r.dead THEN idx ELSE idx + 1
            /\ snapshots' = [snapshots EXCEPT ![ip] = @ \cup {r.status[ip]}]
    /\ UNCHANGED <<GRACE_PERIOD, WEBHOOK_URL, clock, now, next_run, reader>>

\* daily_summary(targets) lines 105-108: the hosts whose is_up is false
down_hosts == SelectSeq(targets, LAMBDA t : ~status_data[t.ip]["is_up"])

\* monitor() line 150: schedule.run_pending() runs daily_summary when due
RunPending ==
    /\ pc = "pending"
    /\ \E transport \in Transports :
        LET s == send_webhook(WEBHOOK_URL, transport)
            due == clock >= next_run
            digest == due /\ down_hosts # <<>>
        IN  /\ sent' = IF digest
                       THEN Append(sent, Message("DIGEST", 0, down_hosts, s.result))
                       ELSE sent
            /\ next_run' = IF due /\ ~(digest /\ s.raised)
                           THEN next_run + DayLength ELSE next_run
            /\ pc' = IF digest /\ s.raised THEN "dead" ELSE "sleep"
    /\ UNCHANGED <<GRACE_PERIOD, WEBHOOK_URL, status_data, down_since, alert_sent,
                   ping_log, clock, now, idx, episode, last, reader, snapshots>>

\* monitor() line 151: time.sleep(CHECK_INTERVAL)
Sleep ==
    /\ pc = "sleep"
    /\ clock' = clock + CHECK_INTERVAL
    /\ pc' = "top"
    /\ UNCHANGED <<GRACE_PERIOD, WEBHOOK_URL, status_data, down_since, alert_sent,
                   ping_log, now, idx, next_run, sent, episode, last, reader, snapshots>>

Next == BeginCycle \/ PollHost \/ RunPending \/ Sleep

Spec == Init /\ [][Next]_vars

\* ------------------------------------------------------ the dashboard read
\* index() runs in a Flask request thread, concurrently with monitor(); it
\* reads the live dict status_data[ip] one field at a time.
monitorVars == <<GRACE_PERIOD, WEBHOOK_URL, status_data, down_since, alert_sent,
                 ping_log, clock, now, idx, pc, next_run, sent, episode, last,
                 snapshots>>

\* index() line 160 asks calc_uptime for the last 60 minutes
IndexWindow == MaxWindow

\* the host the for loop of line 159 is at (dict order is insertion order)
ReaderTarget == targets[reader.pos]

\* index() lines 158-159: a request arrives, rows = []
IndexBegin ==
    /\ reader.pc = "idle"
    /\ reader' = [NoRequest EXCEPT !.pc = "uptime"]
    /\ UNCHANGED monitorVars

\* index() line 160: uptime = calc_uptime(ip, 60)
IndexUptime ==
    /\ reader.pc = "uptime"
    /\ reader' = [reader EXCEPT
                    !.uptime = calc_uptime(ping_log, ReaderTarget.ip, IndexWindow, clock),
                    !.pc = "is_up"]
    /\ UNCHANGED monitorVars

\* index() line 164: v["is_up"]
IndexReadIsUp ==
    /\ reader.pc = "is_up"
    /\ reader' = [reader EXCEPT !.is_up = status_data[ReaderTarget.ip]["is_up"],
                                !.pc = "latency"]
    /\ UNCHANGED monitorVars

\* index() line 165: v.get("latency", 0)
IndexReadLatency ==
    /\ reader.pc = "latency"
    /\ reader' = [reader EXCEPT
                    !.latency = IF "latency" \in DOMAIN status_data[ReaderTarget.ip]
                                THEN status_data[ReaderTarget.ip]["latency"] ELSE 0,
                    !.pc = "last_change"]
    /\ UNCHANGED monitorVars

\* index() lines 161-168: v["last_change"], rows.append(...), next host; the
\* page is rendered after the last one
IndexReadLastChange ==
    /\ reader.pc = "last_change"
    /\ reader' = [NoRequest EXCEPT
                    !.rows = Append(reader.rows,
                                [hostname |-> status_data[ReaderTarget.ip]["hostname"],
                                 ip |-> ReaderTarget.ip,
                                 is_up |-> reader.is_up,
                                 latency |-> reader.latency,
                                 uptime |-> reader.uptime,
                                 last_change |-> status_data[ReaderTarget.ip]["last_change"]]),
                    !.pos = reader.pos + 1,
                    !.pc = IF reader.pos = Len(targets) THEN "done" ELSE "uptime"]
    /\ UNCHANGED monitorVars

NextReader ==
    \/ BeginCycle \/ PollHost \/ RunPending \/ Sleep
    \/ IndexBegin \/ IndexUptime \/ IndexReadIsUp \/ IndexReadLatency
    \/ IndexReadLastChange

\* the loop is entered late enough to leave ReaderCycles cycles
InitReader == InitAt(StartTime + (Horizon - ReaderCycles) * CHECK_INTERVAL)

SpecReader == InitReader /\ [][NextReader]_vars

\* ================================================================ claims
\* the step is one iteration of the for loop, for address ip
PollOf(ip) == pc = "poll" /\ targets[idx].ip = ip

\* C1: with GRACE_PERIOD > 0, once a completed failed poll of a host finds
\* that its run of failures, begun at downSince, has lasted GRACE_PERIOD or
\* longer, an ALERT has been dispatched for that run and alertSent is true.
C1_AlertWhenGraceElapsed ==
    \A ip \in Ips :
        (/\ GRACE_PERIOD > 0
         /\ last.ip = ip /\ ~last.is_up /\ ~last.log_error
         /\ episode[ip].failing
         /\ last.at - episode[ip].since >= GRACE_PERIOD)
        => (alert_sent[ip] /\ episode[ip].alerts = 1)

\* C2: a poll that dispatches an ALERT for a host is a failed poll at which
\* the host's run of consecutive failures, and its down_since entry, are at
\* least GRACE_PERIOD old.
C2_NoAlertWithinGrace ==
    \A ip \in Ips :
        (last.ip = ip /\ last.notify = "ALERT")
        => (/\ ~last.is_up
            /\ episode[ip].failing
            /\ last.at - episode[ip].since >= GRACE_PERIOD
            /\ ip \in DOMAIN down_since
            /\ last.at - down_since[ip] >= GRACE_PERIOD)

\* C2 witness: an ALERT has just been dispatched
C2_Witness == last.notify = "ALERT" /\ alert_sent[last.ip]

\* C3: a run of consecutive failed polls of a host carries at most one ALERT,
\* and a failed poll that dispatches anything dispatches that one ALERT.
C3_OneAlertPerEpisode ==
    \A ip \in Ips :
        /\ episode[ip].alerts <= 1
        /\ (last.ip = ip /\ ~last.is_up /\ last.notify # "none")
           => (last.notify = "ALERT" /\ episode[ip].alerts = 1)

\* C3 witness: a further failed poll of an episode whose ALERT was sent
C3_Witness ==
    /\ last.ip \in Ips
    /\ ~last.is_up /\ ~last.log_error /\ last.notify = "none"
    /\ episode[last.ip].alerts = 1

\* C4: the first successful poll of a host after an ALERT of its episode sets
\* it UP, removes its down_since entry, dispatches exactly one RECOVERY and
\* clears alertSent, all in that iteration.
C4_ImmediateRecovery ==
    [][\A ip \in Ips :
          (/\ PollOf(ip)
           /\ episode[ip].alerts >= 1
           /\ last'.is_up /\ ~last'.log_error)
          => (/\ status_data'[ip]["is_up"]
              /\ ip \notin DOMAIN down_since'
              /\ ~alert_sent'[ip]
              /\ Len(sent') = Len(sent) + 1
              /\ sent'[Len(sent')].kind = "RECOVERY"
              /\ sent'[Len(sent')].ip = ip)]_vars

\* C4 witness: a RECOVERY has just been dispatched
C4_Witness ==
    /\ last.ip \in Ips
    /\ last.notify = "RECOVERY"
    /\ status_data[last.ip]["is_up"] /\ ~alert_sent[last.ip]

\* the value of status_data[ip]["last_change"] differs after the step
LastChangeModified(ip) ==
    status_data'[ip]["last_change"] # status_data[ip]["last_change"]

\* C5: on every poll of every host, lastChangeAt is modified if and only if
\* the poll confirms DOWN (dispatches the ALERT) or takes the host from
\* not-up to up.
C5_LastChangeOnlyOnTransition ==
    [][\A ip \in Ips :
          LastChangeModified(ip)
          <=> \/ (PollOf(ip) /\ last'.notify = "ALERT")
              \/ (~status_data[ip]["is_up"] /\ status_data'[ip]["is_up"])]_vars

\* the previous poll of ip succeeded and nothing is pending for it
AlreadyUp(ip) ==
    /\ status_data[ip]["is_up"]
    /\ status_data[ip]["last_change"] # "Never"
    /\ ip \notin DOMAIN down_since
    /\ ~alert_sent[ip]

\* C6: a further successful poll of a host that is already UP leaves
\* lastChangeAt, alertSent and downSince as they were and sends nothing.
C6_UpPollIdempotent ==
    [][\A ip \in Ips :
          (PollOf(ip) /\ AlreadyUp(ip) /\ last'.is_up /\ ~last'.log_error)
          => (/\ ~LastChangeModified(ip)
              /\ sent' = sent
              /\ alert_sent' = alert_sent
              /\ down_since' = down_since)]_vars

\* the outcome of the latest ALERT handed to send_webhook for ip
AlertIndexes(ip) == {i \in DOMAIN sent : sent[i].kind = "ALERT" /\ sent[i].ip = ip}

LastAlertResult(ip) ==
    IF AlertIndexes(ip) = {} THEN "none"
    ELSE sent[CHOOSE i \in AlertIndexes(ip) : \A j \in AlertIndexes(ip) : j <= i].result

\* C7: when the transport fails on an ALERT, the iteration still ends with
\* the loop running, alertSent true and the host's status entry as after a
\* delivered ALERT; and a later failed poll of that episode sends nothing.
C7_DeliveryFailureKeepsState ==
    /\ [](\A ip \in Ips :
            (last.ip = ip /\ last.notify = "ALERT" /\ last.result = "error")
            => (/\ pc # "dead"
                /\ alert_sent[ip]
                /\ ip \in DOMAIN down_since
                /\ status_data[ip] = [hostname |-> targets[ip].hostname,
                                      is_up |-> FALSE, latency |-> 0,
                                      last_change |-> strftime(last.at)]))
    /\ [][\A ip \in Ips :
            (/\ PollOf(ip)
             /\ episode[ip].alerts >= 1 /\ LastAlertResult(ip) = "error"
             /\ ~last'.is_up)
            => (sent' = sent /\ alert_sent'[ip])]_vars

\* C7 witness: a failed poll after the undelivered ALERT of the same episode
C7_Witness ==
    /\ last.ip \in Ips
    /\ ~last.is_up /\ ~last.log_error /\ last.notify = "none"
    /\ episode[last.ip].alerts = 1
    /\ LastAlertResult(last.ip) = "error"
    /\ alert_sent[last.ip]
    /\ pc # "dead"

\* C8: after log_ping raised in an iteration, the loop is still running and
\* the host's status carries that iteration's probe result.
C8_PersistFailureDoesNotHalt ==
    last.log_error
    => (pc # "dead" /\ status_data[last.ip]["is_up"] = last.is_up)

\* C9: an iteration whose probe failed (no reply, or an exception inside the
\* probe) or whose notification failed goes on to the next host, or to
\* run_pending after the last one; a failed digest goes on to the sleep; and
\* the next cycle starts after the sleep.
C9_HostErrorsIsolated ==
    [][/\ (/\ pc = "poll"
           /\ ~last'.log_error
           /\ (~last'.is_up \/ last'.probe_exc \/ last'.result = "error"))
          => (/\ idx' = idx + 1
              /\ pc' = IF idx < Len(targets) THEN "poll" ELSE "pending")
       /\ (pc = "pending") => (pc' = "sleep")
       /\ (pc = "sleep") => (pc' = "top")]_vars

\* C9 witness: in one cycle the first host's ALERT was not delivered, the
\* second host's probe raised inside ping_host, and the loop is running
C9_Witness ==
    /\ pc = "pending"
    /\ last.ip = targets[2].ip /\ last.probe_exc /\ last.at = now
    /\ ~status_data[targets[1].ip]["is_up"]
    /\ LastAlertResult(targets[1].ip) = "error"
    /\ ~status_data[targets[2].ip]["is_up"]

\* the time a timestamp text stands for
ParseIso(text) == 10 * text[1] + text[2]

\* the addresses and windows the uptime query is asked for; the last
\* address has no row
QueryIps == Ips \cup {Len(targets) + 1}

Windows == 0..MaxWindow

\* the rows of ip no older than the window, and the reachable ones of them
InWindow(ip, w) ==
    {i \in DOMAIN ping_log :
        ping_log[i].ip = ip /\ ParseIso(ping_log[i].timestamp) >= clock - w}

Reachable(ip, w) == {i \in InWindow(ip, w) : ping_log[i].is_up = 1}

\* C10: calc_uptime(ip, window) is 100.0 when no row of ip lies in the
\* window, and otherwise the two-decimal value nearest to 100*K/N, N the
\* rows of ip in the window and K the reachable ones; rows of other
\* addresses and older rows do not count.
C10_UptimeRatio ==
    \A ip \in QueryIps, w \in Windows :
        LET N == Cardinality(InWindow(ip, w))
            K == Cardinality(Reachable(ip, w))
            u == calc_uptime(ping_log, ip, w, clock)
            d == u * N - 10000 * K
        IN  IF N = 0 THEN u = 10000
            ELSE 2 * d <= N /\ 2 * (-d) <= N

\* C10 witness: a window holding a failed and a successful row of an address
\* that also has an older row, with rows of another address in the log
C10_Witness ==
    \E ip \in Ips, w \in Windows :
        /\ Cardinality(InWindow(ip, w)) = 2
        /\ Cardinality(Reachable(ip, w)) = 1
        /\ calc_uptime(ping_log, ip, w, clock) = 5000
        /\ \E i \in DOMAIN ping_log :
              ping_log[i].ip = ip /\ ParseIso(ping_log[i].timestamp) < clock - w
        /\ \E i \in DOMAIN ping_log : ping_log[i].ip # ip

\* the ids of the rows of ip, and the limits the history query is asked for
RowsOf(ip) == {i \in DOMAIN ping_log : ping_log[i].ip = ip}

Limits == 0..MaxLimit

\* C11: get_recent_history(ip, limit) has min(limit, count) entries; its k-th
\* entry is the row of ip that has exactly (length - k) later rows of ip, so
\* the entries are the most recent rows of ip, oldest first, and no row of
\* another address.
C11_RecentHistory ==
    \A ip \in QueryIps, limit \in Limits :
        LET hist == get_recent_history(ping_log, ip, limit)
            count == Cardinality(RowsOf(ip))
            n == IF limit < count THEN limit ELSE count
        IN  /\ Len(hist) = n
            /\ \A k \in 1..n :
                 \E i \in RowsOf(ip) :
                    /\ Cardinality({j \in RowsOf(ip) : j > i}) = n - k
                    /\ hist[k] = [timestamp |-> ping_log[i].timestamp,
                                  latency |-> ping_log[i].latency,
                                  is_up |-> ping_log[i].is_up = 1]

\* C11 witness: three rows of an address, the newest two asked for, with
\* rows of another address in the log
C11_Witness ==
    \E ip \in Ips :
        /\ Cardinality(RowsOf(ip)) = 3
        /\ Len(get_recent_history(ping_log, ip, 2)) = 2
        /\ get_recent_history(ping_log, ip, 2)[1].timestamp = isoformat(clock - 1)
        /\ get_recent_history(ping_log, ip, 2)[2].timestamp = isoformat(clock)
        /\ \E i \in DOMAIN ping_log : ping_log[i].ip # ip

\* C12: while a host is in its grace window (its latest polls failed and no
\* ALERT has been dispatched for the run), status_data[ip]["is_up"] still
\* shows the reachable state it had before the run.
C12_PendingShownAsUp ==
    \A ip \in Ips :
        (/\ last.ip = ip /\ ~last.is_up /\ ~last.log_error
         /\ episode[ip].failing /\ episode[ip].alerts = 0)
        => status_data[ip]["is_up"]

\* the step polls ip, which was up, and its probe fails
FirstFailureOf(ip) ==
    /\ PollOf(ip)
    /\ status_data[ip]["is_up"] /\ ~episode[ip].failing
    /\ ~last'.is_up /\ ~last'.log_error

\* the step dispatches an ALERT for ip
AlertStep(ip) ==
    /\ Len(sent') = Len(sent) + 1
    /\ sent'[Len(sent')].kind = "ALERT"
    /\ sent'[Len(sent')].ip = ip

\* C13 as stated: for every GRACE_PERIOD >= 0 the poll of the first failure
\* after UP only sets downSince = now, sends nothing and leaves alertSent
\* false; with GRACE_PERIOD = 0 the ALERT goes out on the next failed poll.
C13_FirstFailureOnlyPending ==
    [][\A ip \in Ips :
          /\ FirstFailureOf(ip)
             => (/\ ip \in DOMAIN down_since' /\ down_since'[ip] = now
                 /\ sent' = sent
                 /\ ~alert_sent'[ip])
          /\ (/\ GRACE_PERIOD = 0 /\ PollOf(ip)
              /\ episode[ip].failing /\ episode[ip].alerts = 0
              /\ ~last'.is_up /\ ~last'.log_error)
             => AlertStep(ip)]_vars

\* C13 amended: the poll of the first failure after UP sets downSince = now;
\* with GRACE_PERIOD > 0 it sends nothing and leaves alertSent false, with
\* GRACE_PERIOD = 0 it dispatches the ALERT itself and sets alertSent.
C13_FirstFailureAmended ==
    [][\A ip \in Ips :
          FirstFailureOf(ip)
          => (/\ ip \in DOMAIN down_since' /\ down_since'[ip] = now
              /\ IF GRACE_PERIOD > 0
                 THEN sent' = sent /\ ~alert_sent'[ip]
                 ELSE AlertStep(ip) /\ alert_sent'[ip])]_vars

\* C13 witness: with GRACE_PERIOD = 0 the first failed poll of a run has
\* dispatched the ALERT
C13_Witness ==
    /\ GRACE_PERIOD = 0
    /\ last.ip \in Ips
    /\ ~last.is_up /\ last.notify = "ALERT"
    /\ episode[last.ip].since = last.at
    /\ down_since[last.ip] = last.at
    /\ alert_sent[last.ip]

\* the step dispatches a RECOVERY for ip
RecoveryStep(ip) ==
    /\ Len(sent') = Len(sent) + 1
    /\ sent'[Len(sent')].kind = "RECOVERY"
    /\ sent'[Len(sent')].ip = ip

\* the ALERT and RECOVERY messages of ip, in the order they were handed over
NotificationsOf(ip) ==
    SelectSeq(sent, LAMBDA m : m.ip = ip /\ m.kind \in {"ALERT", "RECOVERY"})

\* C14: after every completed iteration alertSent[ip] is true exactly when
\* an ALERT was dispatched in ip's current run of failures; it turns true
\* only in a step that dispatches an ALERT for ip and false only in a step
\* that dispatches a RECOVERY for ip; and the notifications of ip alternate
\* ALERT, RECOVERY, ALERT, ... beginning with an ALERT.
C14_AlertSentTracksEpisode ==
    /\ [](\A ip \in Ips :
            ~last.log_error
            => (alert_sent[ip] <=> (episode[ip].failing /\ episode[ip].alerts >= 1)))
    /\ [][\A ip \in Ips :
            /\ (alert_sent'[ip] /\ ~alert_sent[ip]) => AlertStep(ip)
            /\ (~alert_sent'[ip] /\ alert_sent[ip]) => RecoveryStep(ip)]_vars
    /\ [](\A ip \in Ips :
            \A k \in 1..Len(NotificationsOf(ip)) :
                NotificationsOf(ip)[k].kind = IF k % 2 = 1 THEN "ALERT" ELSE "RECOVERY")

\* C14 witness: a host alerted, recovered and alerted again
C14_Witness ==
    \E ip \in Ips :
        /\ Len(NotificationsOf(ip)) = 3
        /\ alert_sent[ip]
        /\ episode[ip].alerts = 1

\* C15: after every completed poll of a host, down_since has an entry for it
\* exactly when its latest probe failed, and the entry is the cycle time of
\* the first failed poll of the current run of failures.
C15_DownSinceIsRunStart ==
    \A ip \in Ips :
        ~(last.ip = ip /\ last.log_error)
        => (/\ (ip \in DOMAIN down_since) <=> episode[ip].failing
            /\ episode[ip].failing => down_since[ip] = episode[ip].since)

\* C15 witness: a later failed poll of a run has kept the entry of the first
C15_Witness ==
    /\ last.ip \in Ips
    /\ ~last.is_up /\ ~last.log_error
    /\ last.ip \in DOMAIN down_since
    /\ down_since[last.ip] < last.at

\* the targets for which an ALERT was dispatched and no recovery seen yet
ConfirmedDown ==
    SelectSeq(targets, LAMBDA t : episode[t.ip].failing /\ episode[t.ip].alerts >= 1)

\* C16: when the digest runs it sends one message listing exactly the hosts
\* in DOWN_CONFIRMED, and nothing when there is none.
C16_DigestListsConfirmed ==
    [][(pc = "pending" /\ clock >= next_run)
       => IF ConfirmedDown = <<>>
          THEN sent' = sent
          ELSE /\ Len(sent') = Len(sent) + 1
               /\ sent'[Len(sent')].kind = "DIGEST"
               /\ sent'[Len(sent')].hosts = ConfirmedDown]_vars

\* v.get("latency", 0) of a status dict
LatencyOf(v) == IF "latency" \in DOMAIN v THEN v["latency"] ELSE 0

\* C17: every row index() has built carries reachable, latency and
\* lastChangeAt of one and the same value its host's status had at a poll
\* boundary.
C17_RowsAreSnapshots ==
    \A k \in DOMAIN reader.rows :
        \E v \in snapshots[reader.rows[k].ip] :
            /\ reader.rows[k].is_up = v["is_up"]
            /\ reader.rows[k].latency = LatencyOf(v)
            /\ reader.rows[k].last_change = v["last_change"]

\* the cycles the loop has completed
CompletedCycles ==
    IF pc = "top" THEN (clock - StartTime) \div CHECK_INTERVAL
    ELSE IF pc \in {"pending", "sleep"} THEN (now - StartTime) \div CHECK_INTERVAL + 1
    ELSE (now - StartTime) \div CHECK_INTERVAL

\* C18: an iteration appends exactly one row, carrying the probe's own
\* reachable and latency for that host, whether or not it notifies; no row is
\* ever changed or removed; after k completed cycles over n targets the log
\* holds k*n rows.
C18_OneRowPerPoll ==
    /\ [][\A ip \in Ips :
            (PollOf(ip) /\ ~last'.log_error)
            => (/\ Len(ping_log') = Len(ping_log) + 1
                /\ ping_log'[Len(ping_log')].ip = ip
                /\ ping_log'[Len(ping_log')].is_up = (IF last'.is_up THEN 1 ELSE 0)
                /\ ping_log'[Len(ping_log')].latency
                     = (IF last'.is_up THEN ParsedLatency ELSE 0))]_vars
    /\ [][/\ Len(ping_log') >= Len(ping_log)
          /\ SubSeq(ping_log', 1, Len(ping_log)) = ping_log]_vars
    /\ [](pc \in {"top", "pending", "sleep"}
            => Len(ping_log) = CompletedCycles * Len(targets))

\* C18 witness: two completed cycles, with rows of failed and of successful
\* probes and a notification sent along the way
C18_Witness ==
    /\ pc = "sleep"
    /\ CompletedCycles = 2
    /\ Len(ping_log) = 2 * Len(targets)
    /\ \E i \in DOMAIN ping_log : ping_log[i].is_up = 0
    /\ \E i \in DOMAIN ping_log : ping_log[i].is_up = 1 /\ ping_log[i].latency = ParsedLatency
    /\ sent # <<>>

\* no probe of ip has completed yet
Unprobed(ip) == RowsOf(ip) = {} /\ last.ip # ip

C20_DownHasNoLatency ==
    \A ip \in Ips :
        ~status_data[ip]["is_up"] => LatencyOf(status_data[ip]) = 0

====
